---------------------------- MODULE Spec2Model ----------------------------
(***************************************************************************)
(* The request / retry / error-classification pipeline of the Notion API   *)
(* client: the error classifier of src/src/api/failure.rs, the client      *)
(* operations and the retry driver send_with_retries of src/src/api/mod.rs.*)
(*                                                                         *)
(* Text is modelled as a sequence of one-character strings, so that        *)
(* str::parse::<f64> is computed character by character.  A parsed float   *)
(* is kept as its decimal expansion; Duration is the pair (secs, nanos)    *)
(* of std::time::Duration.  The binary rounding of f64 is not modelled:    *)
(* the header values enumerated below stay where the f64 nearest to the    *)
(* decimal converts to the same whole number of nanoseconds.               *)
(***************************************************************************)
EXTENDS Integers, Sequences, FiniteSets, TLC

VARIABLES
    server,     \* the outcomes the transport can produce in this run
    pc,         \* position of send_with_retries: loop, sleep, done, panicked
    retries,    \* the local `retries` of send_with_retries
    pending,    \* the duration the driver is about to hand to `sleep`
    sent,       \* history: the transport outcome of every request, in order
    results,    \* history: the value returned by every invocation of f
    waits,      \* history: the duration passed to every call of `sleep`
    returned,   \* the value send_with_retries returned, once it has
    client,     \* the Client the wrapped operation borrows
    call,       \* the operation f performs, with its parameters
    requests,   \* history: every request handed to the transport
    classified, \* history: every ureq::Error handed to From
    events,     \* history: "invoke", "wait" and "return", in order
    sleep_override, \* the wait function the caller supplied, if any
    thread_sleeps,  \* history: the duration of every thread::sleep
    peer,       \* the locals of a second call sharing the client, if any
    recording,  \* whether a tracing subscriber records the diagnostics
    diagnostics, \* history: the diagnostics send_with_retries emitted
    warnings    \* history: the diagnostics the error classifier emitted

vars == <<server, pc, retries, pending, sent, results, waits, returned,
          client, call, requests, classified, events,
          sleep_override, thread_sleeps, peer,
          recording, diagnostics, warnings>>

(***************************************************************************)
(* Bounds of the model.                                                    *)
(***************************************************************************)
\* Longest Retry-After value drawn from the alphabet HeaderChars.
MaxHeaderLen == 3

(***************************************************************************)
(* Option values.                                                          *)
(***************************************************************************)
None == [some |-> FALSE]
Some(x) == [some |-> TRUE, v |-> x]

(***************************************************************************)
(* Text helpers.                                                           *)
(***************************************************************************)
Digits == {"0", "1", "2", "3", "4", "5", "6", "7", "8", "9"}

DigitVal(c) ==
    CASE c = "0" -> 0 [] c = "1" -> 1 [] c = "2" -> 2 [] c = "3" -> 3
      [] c = "4" -> 4 [] c = "5" -> 5 [] c = "6" -> 6 [] c = "7" -> 7
      [] c = "8" -> 8 [] c = "9" -> 9

\* ASCII lower-casing, for the letters that occur in the enumerated headers.
Lower(c) ==
    CASE c = "A" -> "a" [] c = "E" -> "e" [] c = "F" -> "f" [] c = "I" -> "i"
      [] c = "N" -> "n" [] c = "T" -> "t" [] c = "Y" -> "y"
      [] OTHER -> c

LowerAll(s) == [i \in 1..Len(s) |-> Lower(s[i])]

Drop(s, n) == SubSeq(s, n + 1, Len(s))
Take(s, n) == SubSeq(s, 1, n)

RECURSIVE DigitRun(_)
\* Number of leading ASCII digits of s.
DigitRun(s) ==
    IF Len(s) > 0 /\ s[1] \in Digits THEN 1 + DigitRun(Tail(s)) ELSE 0

RECURSIVE DigitsToNat(_)
DigitsToNat(s) ==
    IF Len(s) = 0 THEN 0
    ELSE 10 * DigitsToNat(Take(s, Len(s) - 1)) + DigitVal(s[Len(s)])

Zeros(n) == [i \in 1..n |-> "0"]
AllZero(s) == \A i \in 1..Len(s) : s[i] = "0"

RECURSIVE StripLeadingZeros(_)
StripLeadingZeros(s) ==
    IF Len(s) > 0 /\ s[1] = "0" THEN StripLeadingZeros(Tail(s)) ELSE s

RECURSIVE DigitsLess(_, _)
\* a < b for two digit strings of the same length.
DigitsLess(a, b) ==
    IF Len(a) = 0 THEN FALSE
    ELSE IF a[1] # b[1] THEN DigitVal(a[1]) < DigitVal(b[1])
    ELSE DigitsLess(Tail(a), Tail(b))


(***************************************************************************)
(* str::parse::<f64>, as core::num::dec2flt reads its input:               *)
(*   Float  ::= Sign? ( "inf" | "infinity" | "nan" | Number )              *)
(*   Number ::= ( Digit+ | Digit+ "." Digit* | Digit* "." Digit+ ) Exp?    *)
(*   Exp    ::= ("e" | "E") Sign? Digit+                                   *)
(* The whole input must be consumed; the words are matched without regard  *)
(* to case.  A parsed value is kept as sign, integer digits, fraction      *)
(* digits and decimal exponent.                                            *)
(***************************************************************************)
ParseError == [ok |-> FALSE]
ParsedNaN(neg) == [ok |-> TRUE, class |-> "nan", neg |-> neg]
ParsedInf(neg) == [ok |-> TRUE, class |-> "inf", neg |-> neg]
ParsedNum(neg, int, frac, exp) ==
    [ok |-> TRUE, class |-> "num", neg |-> neg, int |-> int, frac |-> frac,
     exp |-> exp]

\* The digits of an exponent, after its sign: None unless all are digits.
ExponentDigits(negExp, ds) ==
    IF Len(ds) = 0 \/ DigitRun(ds) # Len(ds) THEN None
    ELSE Some(IF negExp THEN 0 - DigitsToNat(ds) ELSE DigitsToNat(ds))

\* The exponent part of a number: None when `rest` is no Exp? at all.
ParseExponent(rest) ==
    IF Len(rest) = 0 THEN Some(0)
    ELSE IF Lower(rest[1]) # "e" THEN None
    ELSE IF Len(rest) > 1 /\ rest[2] \in {"+", "-"}
         THEN ExponentDigits(rest[2] = "-", Drop(rest, 2))
         ELSE ExponentDigits(FALSE, Drop(rest, 1))

\* A number whose digits are read, given what its exponent part came to.
NumberWithExponent(neg, int, frac, exp) ==
    IF Len(int) + Len(frac) = 0 \/ ~exp.some THEN ParseError
    ELSE ParsedNum(neg, int, frac, exp.v)

\* The fraction and exponent of a number, after its n1 integer digits.
ParseFraction(neg, body, n1, n2) ==
    IF Len(body) > n1 /\ body[n1 + 1] = "."
    THEN NumberWithExponent(neg, Take(body, n1), SubSeq(body, n1 + 2, n1 + 1 + n2),
                            ParseExponent(Drop(body, n1 + 1 + n2)))
    ELSE NumberWithExponent(neg, Take(body, n1), <<>>,
                            ParseExponent(Drop(body, n1)))

ParseNumber(neg, body) ==
    ParseFraction(neg, body, DigitRun(body), DigitRun(Drop(body, DigitRun(body) + 1)))

ParseInfNan(neg, w) ==
    IF w = <<"n", "a", "n">> THEN ParsedNaN(neg)
    ELSE IF w = <<"i", "n", "f">>
            \/ w = <<"i", "n", "f", "i", "n", "i", "t", "y">>
         THEN ParsedInf(neg)
    ELSE ParseError

NumberOrInfNan(neg, body, num) ==
    IF num.ok THEN num ELSE ParseInfNan(neg, LowerAll(body))

ParseUnsigned(neg, body) ==
    IF Len(body) = 0 THEN ParseError
    ELSE NumberOrInfNan(neg, body, ParseNumber(neg, body))

ParseF64(s) ==
    IF Len(s) > 0 /\ s[1] \in {"+", "-"}
    THEN ParseUnsigned(s[1] = "-", Tail(s))
    ELSE ParseUnsigned(FALSE, s)

\* The float literal 1.0.
OnePointZero == ParsedNum(FALSE, <<"1">>, <<"0">>, 0)

(***************************************************************************)
(* std::time::Duration and Duration::from_secs_f64.                        *)
(***************************************************************************)
Duration(secs, nanos) == [secs |-> secs, nanos |-> nanos]

\* An unwinding panic, in place of the value the call would have produced.
Unwind == [unwind |-> TRUE]

\* Digits of Duration::MAX's whole seconds plus one: 2^64.
TwoTo64 ==
    <<"1", "8", "4", "4", "6", "7", "4", "4", "0", "7", "3", "7", "0", "9",
      "5", "5", "1", "6", "1", "6">>

\* The digits d of a number with the decimal point after the p-th: those
\* before the point, without leading zeros, and those after it.
WholeDigitsAt(d, p) ==
    StripLeadingZeros(IF p <= 0 THEN <<>>
                      ELSE IF p >= Len(d) THEN d \o Zeros(p - Len(d))
                      ELSE Take(d, p))

FractionDigitsAt(d, p) ==
    IF p <= 0 THEN Zeros(0 - p) \o d
    ELSE IF p >= Len(d) THEN <<>>
    ELSE Drop(d, p)

WholeDigits(f) == WholeDigitsAt(f.int \o f.frac, Len(f.int) + f.exp)
FractionDigits(f) == FractionDigitsAt(f.int \o f.frac, Len(f.int) + f.exp)

NANOS_DIGITS == 9
NANOS_PER_SEC == 1000000000

\* Whether the whole seconds w are 2^64 or more.
OverflowsDuration(w) ==
    Len(w) > Len(TwoTo64) \/ (Len(w) = Len(TwoTo64) /\ ~DigitsLess(w, TwoTo64))

\* Nanoseconds rounded to nearest, ties to even: `kept` are the first nine
\* fraction digits, `next` the tenth, `tail` the rest.
RoundNanos(kept, next, tail) ==
    IF next > 5 \/ (next = 5 /\ (~AllZero(tail) \/ kept % 2 = 1))
    THEN kept + 1
    ELSE kept

\* Mutant: the fraction is kept to the millisecond only.
RoundedNanos_millis(fr) == DigitsToNat(Take(fr, 3)) * 1000000
RoundedNanos(fr) ==
    RoundNanos(DigitsToNat(Take(fr, NANOS_DIGITS)), DigitVal(fr[NANOS_DIGITS + 1]),
               Drop(fr, NANOS_DIGITS + 1))

DurationOf(secs, nanos) ==
    IF nanos = NANOS_PER_SEC THEN Duration(secs + 1, 0) ELSE Duration(secs, nanos)

FiniteToDuration(w, fr) ==
    IF OverflowsDuration(w) THEN Unwind
    ELSE DurationOf(DigitsToNat(w), RoundedNanos(fr \o Zeros(NANOS_DIGITS + 1)))

\* Panics when the value is negative, not finite, or overflows Duration.
from_secs_f64(f) ==
    IF f.class # "num" THEN Unwind
    ELSE IF f.neg /\ ~AllZero(f.int \o f.frac) THEN Unwind
    ELSE FiniteToDuration(WholeDigits(f), FractionDigits(f))

(***************************************************************************)
(* What the transport (ureq) hands back for one request: Ok(Response) for  *)
(* a status below 400, Err(Status(code, response)) for 400 and above, and  *)
(* Err(Transport) when no response was received.  A response carries its   *)
(* Retry-After header, if any, and its body.                               *)
(***************************************************************************)
Response(code, retry_after_header, body) ==
    [type |-> "Response", code |-> code, retry_after |-> retry_after_header,
     body |-> body]

StatusError(code, retry_after_header, body) ==
    [type |-> "Status", code |-> code, retry_after |-> retry_after_header,
     body |-> body]

TransportError == [type |-> "Transport"]

\* Status codes ureq reports as Error::Status, and one it reports as success.
FailureCodes == {400, 401, 403, 404, 429, 500, 503}
SuccessResponse == Response(200, None, "{}")
Bodies == {"", "{\"object\":\"error\"}"}

\* Retry-After values: every text over HeaderChars up to MaxHeaderLen, and
\* the listed longer ones.
HeaderChars == {"0", "1", "5", ".", "-", "x"}

RECURSIVE TextsOfLen(_)
TextsOfLen(n) ==
    IF n = 0 THEN {<<>>}
    ELSE {Append(t, c) : t \in TextsOfLen(n - 1), c \in HeaderChars}

ShortHeaders == UNION {TextsOfLen(n) : n \in 0..MaxHeaderLen}

LongHeaders ==
    { <<"i", "n", "f">>, <<"-", "i", "n", "f">>, <<"N", "a", "N">>,
      <<"I", "n", "f", "i", "n", "i", "t", "y">>, <<"+", "1">>,
      <<"1", "e", "3">>, <<"1", "E", "2">>, <<"2", "5", "e", "-", "2">>,
      <<"1", "e", "2", "0">>, <<"1", "e">>, <<"3", "6", "0", "0">>,
      <<"0", ".", "2", "3">>, <<"1", ".", "0", "0", "0", "0", "0", "0", "0", "0", "1">>,
      <<"0", ".", "0", "0", "0", "0", "0", "0", "0", "0", "0", "4">>,
      <<"0", ".", "9", "9", "9", "9", "9", "9", "9", "9", "9", "6">>,
      <<"1", "e", "-", "9">>, <<"1", "s">>, <<"1", " ", "0">> }

RetryAfterHeaders == {None} \cup {Some(t) : t \in ShortHeaders \cup LongHeaders}

FailedOutcomes ==
    {TransportError}
    \cup {StatusError(c, h, b) : c \in FailureCodes, h \in RetryAfterHeaders,
                                 b \in Bodies}

\* The replies of a server that rate-limits, rejects and accepts requests.
MixedOutcomes ==
    {SuccessResponse, TransportError}
    \cup {StatusError(c, None, "") : c \in {400, 401, 404, 500}}
    \cup {StatusError(429, h, "") :
            h \in {None, Some(<<"0">>), Some(<<"1", ".", "5">>), Some(<<"x">>),
                   Some(<<"-", "1">>)}}

(***************************************************************************)
(* Error and ErrorKind (api/failure.rs).                                   *)
(***************************************************************************)
Authorization == [tag |-> "Authorization"]
BadRequest == [tag |-> "BadRequest"]
Communication == [tag |-> "Communication"]
RateLimit(duration) == [tag |-> "RateLimit", duration |-> duration]
Unexpected == [tag |-> "Unexpected"]

Error(kind, source) == [kind |-> kind, source |-> source]

is_authorization(err) == err.kind.tag = "Authorization"
\* Mutant: an unexpected status also counts as a bad request.
is_bad_request_loose(err) == err.kind.tag \in {"BadRequest", "Unexpected"}
is_bad_request(err) == err.kind.tag = "BadRequest"
is_communication(err) == err.kind.tag = "Communication"
\* Mutant: every failure but a rejected credential counts as retryable.
is_rate_limit_unless_authorization(err) == err.kind.tag # "Authorization"
\* Mutant: transport failures count as retryable too.
is_rate_limit_or_communication(err) ==
    err.kind.tag \in {"RateLimit", "Communication"}
\* Mutant: a rejected request is retried like a rate-limited one.
is_rate_limit_or_bad_request(err) == err.kind.tag \in {"RateLimit", "BadRequest"}
is_rate_limit(err) == err.kind.tag = "RateLimit"
is_unexptected_status(err) == err.kind.tag = "Unexpected"

\* Mutant: the duration is never handed out.
retry_after_none(err) == None
\* Mutant: a fixed back-off of one second replaces the server's duration.
retry_after_fixed(err) ==
    IF err.kind.tag = "RateLimit" THEN Some(Duration(1, 0)) ELSE None
retry_after(err) ==
    IF err.kind.tag = "RateLimit" THEN Some(err.kind.duration) ELSE None

\* The text used when the response has no Retry-After header.
DefaultRetryAfter == <<"1", ".", "0">>

\* Mutant: an unparseable header means no back-off at all.
DefaultSeconds_zero == ParsedNum(FALSE, <<"0">>, <<"0">>, 0)
\* The seconds used when the header does not parse.
DefaultSeconds == OnePointZero

RetryAfterText(response) ==
    IF response.retry_after.some THEN response.retry_after.v ELSE DefaultRetryAfter

SecondsOf(parsed) == IF parsed.ok THEN parsed ELSE DefaultSeconds

RateLimitFor(duration) ==
    IF duration = Unwind THEN Unwind ELSE RateLimit(duration)

rate_limit_error_kind(response) ==
    RateLimitFor(from_secs_f64(SecondsOf(ParseF64(RetryAfterText(response)))))

\* Mutant: every other 4xx status is taken for a bad request.
ErrorKindOf_4xx(err) ==
    IF err.type = "Transport" THEN Communication
    ELSE IF err.code = 401 THEN Authorization
    ELSE IF err.code = 429 THEN rate_limit_error_kind(err)
    ELSE IF err.code \in 400..499 THEN BadRequest
    ELSE Unexpected

ErrorKindOf(err) ==
    IF err.type = "Transport" THEN Communication
    ELSE IF err.code = 400 THEN BadRequest
    ELSE IF err.code = 401 THEN Authorization
    ELSE IF err.code = 429 THEN rate_limit_error_kind(err)
    ELSE Unexpected

ErrorOf(kind, source) ==
    IF kind = Unwind THEN Unwind ELSE Error(kind, source)

\* impl From<ureq::Error> for Error
From(err) == ErrorOf(ErrorKindOf(err), err)

\* The diagnostics of the classifier (tracing::warn!) for a 429 response.
MissingRetryAfter ==
    [level |-> "WARN",
     message |-> "Notion API response returned 429 status code without Retry-After header"]
InvalidRetryAfter ==
    [level |-> "WARN",
     message |-> "Notion API response returned 429 status code with invalid Retry-After header"]
RateLimited ==
    [level |-> "WARN", message |-> "Notion API request rate limited"]

WarnIf(condition, event) == IF condition THEN <<event>> ELSE <<>>

RateLimitWarnings(response) ==
    WarnIf(~response.retry_after.some, MissingRetryAfter)
    \o WarnIf(~ParseF64(RetryAfterText(response)).ok, InvalidRetryAfter)
    \o WarnIf(rate_limit_error_kind(response) # Unwind, RateLimited)

ClassifierWarnings(outcome) ==
    IF outcome.type = "Status" /\ outcome.code = 429
    THEN RateLimitWarnings(outcome)
    ELSE <<>>

(***************************************************************************)
(* A client operation: send one request; `?` converts a transport error.   *)
(***************************************************************************)
Ok(response) == [ok |-> TRUE, response |-> response]
Err(err) == [ok |-> FALSE, err |-> err]

\* The `?` on the transport's error: return Err(converted), or unwind.
Try(converted) == IF converted = Unwind THEN Unwind ELSE Err(converted)

query_database_properties(outcome) ==
    IF outcome.type = "Response" THEN Ok(outcome) ELSE Try(From(outcome))

\* Mutant: the outcome is converted before it is matched.
Classifications_always(outcome) == <<outcome>>

\* The calls of From that the `?` of an operation makes for an outcome.
Classifications(outcome) ==
    IF outcome.type = "Response" THEN <<>> ELSE <<outcome>>

create_database_entry(outcome) ==
    IF outcome.type = "Response" THEN Ok(outcome) ELSE Try(From(outcome))

query_database(outcome) ==
    IF outcome.type = "Response" THEN Ok(outcome) ELSE Try(From(outcome))

update_database_entry(outcome) ==
    IF outcome.type = "Response" THEN Ok(outcome) ELSE Try(From(outcome))

(***************************************************************************)
(* Client and the requests its operations build (api/mod.rs, headers.rs).  *)
(* A request is its method, path, headers (name -> value) and JSON body;   *)
(* a JSON object is a function from its keys.                              *)
(***************************************************************************)
ClientNew(api_key) ==
    [api_key |-> api_key, base_url |-> "https://api.notion.com/v1"]

base_url(self, url) == [self EXCEPT !.base_url = url]

NewRequest(method, path) ==
    [method |-> method, path |-> path, headers |-> <<>>, body |-> None]

\* ureq::Request::set: the header replaces one of the same name.
set(request, name, value) ==
    [request EXCEPT !.headers = (name :> value) @@ @]

\* Mutant: the key is sent without its scheme.
set_authorization_header_raw(request, api_key) ==
    set(request, "Authorization", api_key)

set_authorization_header(request, api_key) ==
    set(request, "Authorization", "Bearer " \o api_key)

set_default_headers(request) ==
    set(set(request, "Content-Type", "application/json"),
        "Notion-Version", "2022-06-28")

send_json(request, body) == [request EXCEPT !.body = Some(body)]

\* json[key] = value
WithKey(json, key, value) == (key :> value) @@ json

DEFAULT_PAGE_SIZE == 100

unwrap_or(option, default) == IF option.some THEN option.v ELSE default

create_database_entry_request(c, parameters) ==
    send_json(
        set_authorization_header(
            set_default_headers(NewRequest("POST", c.base_url \o "/pages")),
            c.api_key),
        [parent |-> [database_id |-> parameters.database_id],
         properties |-> parameters.properties])

query_database_properties_request(c, database_id) ==
    set_authorization_header(
        set_default_headers(
            NewRequest("GET", c.base_url \o "/databases/" \o database_id)),
        c.api_key)

\* Mutant: an absent cursor is serialised as null.
WithStartCursor_always(body, start_cursor) ==
    WithKey(body, "start_cursor",
            IF start_cursor.some THEN start_cursor.v ELSE "null")

WithStartCursor(body, start_cursor) ==
    IF start_cursor.some THEN WithKey(body, "start_cursor", start_cursor.v)
    ELSE body

WithFilter(body, filter) ==
    IF filter.some THEN WithKey(body, "filter", filter.v) ELSE body

query_database_body(parameters) ==
    WithFilter(
        WithStartCursor(
            [page_size |-> unwrap_or(parameters.page_size, DEFAULT_PAGE_SIZE)],
            parameters.start_cursor),
        parameters.filter)

query_database_request(c, parameters) ==
    send_json(
        set_authorization_header(
            set_default_headers(
                NewRequest("POST", c.base_url \o "/databases/"
                                   \o parameters.database_id \o "/query")),
            c.api_key),
        query_database_body(parameters))

\* Mutant: the update is posted like a creation.
update_database_entry_request_post(c, parameters) ==
    send_json(
        set_authorization_header(
            set_default_headers(
                NewRequest("POST", c.base_url \o "/pages/" \o parameters.entry_id)),
            c.api_key),
        [properties |-> parameters.properties])

update_database_entry_request(c, parameters) ==
    send_json(
        set_authorization_header(
            set_default_headers(
                NewRequest("PATCH", c.base_url \o "/pages/" \o parameters.entry_id)),
            c.api_key),
        [properties |-> parameters.properties])

\* The operation the closure f performs: the request it builds, the requests
\* it hands to the transport, and what it returns for the outcome.
RequestOf(c, f) ==
    CASE f.op = "create_database_entry" ->
            create_database_entry_request(c, f.parameters)
      [] f.op = "query_database_properties" ->
            query_database_properties_request(c, f.database_id)
      [] f.op = "query_database" -> query_database_request(c, f.parameters)
      [] f.op = "update_database_entry" ->
            update_database_entry_request(c, f.parameters)

\* Mutant: the operation sends its request a second time.
Transmissions_twice(c, f) == <<RequestOf(c, f), RequestOf(c, f)>>

Transmissions(c, f) == <<RequestOf(c, f)>>

ResultOf(f, outcome) ==
    CASE f.op = "create_database_entry" -> create_database_entry(outcome)
      [] f.op = "query_database_properties" -> query_database_properties(outcome)
      [] f.op = "query_database" -> query_database(outcome)
      [] f.op = "update_database_entry" -> update_database_entry(outcome)

\* Clients, parameters and replies enumerated for the client operations.
Clients ==
    { ClientNew("test_api_key"), ClientNew("secret_2"),
      base_url(ClientNew("test_api_key"), "http://127.0.0.1:5000") }

Ids == {"db1", "test_database_id"}

Payloads ==
    { [Name |-> [title |-> <<[text |-> [content |-> "Tuscan Kale"]]>>]],
      [Done |-> [checkbox |-> TRUE]] }

Filters == {None, Some([property |-> "Done", checkbox |-> [equals |-> TRUE]])}
PageSizes == {None, Some(1), Some(50)}
Cursors == {None, Some("cursor-1")}

Calls ==
    {[op |-> "create_database_entry",
      parameters |-> [database_id |-> d, properties |-> p]] :
        d \in Ids, p \in Payloads}
    \cup {[op |-> "query_database_properties", database_id |-> d] : d \in Ids}
    \cup {[op |-> "query_database",
           parameters |-> [database_id |-> d, filter |-> fl, page_size |-> ps,
                           start_cursor |-> sc]] :
            d \in Ids, fl \in Filters, ps \in PageSizes, sc \in Cursors}
    \cup {[op |-> "update_database_entry",
           parameters |-> [entry_id |-> d, properties |-> p]] :
            d \in Ids, p \in Payloads}

TestClient == base_url(ClientNew("test_api_key"), "http://127.0.0.1:5000")
TestCall == [op |-> "query_database_properties", database_id |-> "test_database_id"]

\* The replies of a server that accepts, rejects or rate-limits a request.
ClientOutcomes ==
    { Response(200, None, "{}"), Response(201, None, "{\"object\":\"page\"}"),
      Response(204, None, ""), StatusError(400, None, ""),
      StatusError(429, Some(<<"0">>), "") }

(***************************************************************************)
(* send_with_retries (api/mod.rs).  One iteration of the loop runs from    *)
(* the call of f to a return or to the call of `sleep`; the call of        *)
(* `sleep` is a step of its own.                                           *)
(***************************************************************************)
\* Mutant: one retry fewer.
max_retries_short == 3 - 1
max_retries == 3

is_ok(result) == result.ok
unwrap_err(result) == result.err
\* Mutant: the comparison is off by one.
Exhausted_late(r) == r > max_retries
Exhausted(r) == r = max_retries

\* The diagnostics of send_with_retries (tracing::error!, tracing::warn!).
StopRetrying ==
    [level |-> "ERROR", message |-> "Stoping to retry Notion API request"]
NotRetryable ==
    [level |-> "WARN", message |-> "Not retryable Notion API request error"]
Sleeping ==
    [level |-> "WARN", message |-> "Sleeping before retrying Notion API request"]

\* A tracing macro: the event reaches the subscriber, if there is one.
Recorded(log, event) == IF recording THEN Append(log, event) ELSE log

RecordedAll(log, emitted) == IF recording THEN log \o emitted ELSE log

Log(event) == diagnostics' = Recorded(diagnostics, event)

\* Mutant: the result is stored but the function never returns it.
Return_hang(value) ==
    /\ pc' = "hang"
    /\ returned' = Some(value)
    /\ pending' = None

Return(value) ==
    /\ pc' = "done"
    /\ returned' = Some(value)
    /\ pending' = None

\* Mutant: an error that is not retried is returned without a diagnostic.
Retry_unlogged(err) ==
    /\ retries' = retries + 1
    /\ IF ~is_rate_limit(err)
       THEN Return(Err(err)) /\ UNCHANGED diagnostics
       ELSE /\ UNCHANGED returned
            /\ IF retry_after(err).some
               THEN /\ pc' = "sleep"
                    /\ pending' = retry_after(err)
                    /\ Log(Sleeping)
               ELSE /\ pc' = "loop"
                    /\ pending' = None
                    /\ UNCHANGED diagnostics

\* The failure branch of the loop body, past the check of max_retries.
Retry(err) ==
    /\ retries' = retries + 1
    /\ IF ~is_rate_limit(err)
       THEN Return(Err(err)) /\ Log(NotRetryable)
       ELSE /\ UNCHANGED returned
            /\ IF retry_after(err).some
               THEN /\ pc' = "sleep"
                    /\ pending' = retry_after(err)
                    /\ Log(Sleeping)
               ELSE /\ pc' = "loop"
                    /\ pending' = None
                    /\ UNCHANGED diagnostics

\* The loop body, from the value f returned (or its unwinding).
Iteration(result) ==
    IF result = Unwind
    THEN /\ pc' = "panicked"
         /\ UNCHANGED <<retries, pending, results, returned, diagnostics>>
    ELSE /\ results' = Append(results, result)
         /\ IF is_ok(result)
            THEN Return(result) /\ UNCHANGED <<retries, diagnostics>>
            ELSE IF Exhausted(retries)
            THEN Return(result) /\ UNCHANGED retries /\ Log(StopRetrying)
            ELSE Retry(unwrap_err(result))

Attempt(outcome) ==
    /\ pc = "loop"
    /\ sent' = Append(sent, outcome)
    /\ requests' = requests \o Transmissions(client, call)
    /\ classified' = classified \o Classifications(outcome)
    /\ UNCHANGED <<server, waits, client, call>>
    /\ UNCHANGED <<sleep_override, thread_sleeps, peer, recording>>
    /\ warnings' = RecordedAll(warnings, ClassifierWarnings(outcome))
    /\ Iteration(ResultOf(call, outcome))
    /\ events' = events \o <<"invoke">>
                        \o (IF pc' = "done" THEN <<"return">> ELSE <<>>)

Invoke == \E outcome \in server : Attempt(outcome)

Sleep ==
    /\ pc = "sleep"
    /\ waits' = Append(waits, pending.v)
    /\ pc' = "loop"
    /\ pending' = None
    /\ events' = Append(events, "wait")
    /\ UNCHANGED <<server, retries, sent, results, returned>>
    /\ UNCHANGED <<client, call, requests, classified>>
    /\ UNCHANGED <<sleep_override, thread_sleeps, peer>>
    /\ UNCHANGED <<recording, diagnostics, warnings>>

\* A call about to start: the locals of send_with_retries, no history yet.
Start ==
    /\ pc = "loop"
    /\ retries = 0
    /\ pending = None
    /\ sent = <<>>
    /\ results = <<>>
    /\ waits = <<>>
    /\ returned = None
    /\ requests = <<>>
    /\ classified = <<>>
    /\ events = <<>>
    /\ thread_sleeps = <<>>
    /\ diagnostics = <<>>
    /\ warnings = <<>>

\* Either one operation against every kind of reply, or every operation of
\* every client against a few replies.
Init ==
    /\ \/ /\ server \in {MixedOutcomes}
                        \cup {{outcome, SuccessResponse} :
                                 outcome \in FailedOutcomes}
          /\ client = TestClient
          /\ call = TestCall
       \/ /\ server = ClientOutcomes
          /\ client \in Clients
          /\ call \in Calls
    /\ sleep_override = Some("sleep")
    /\ peer = None
    /\ recording = TRUE
    /\ Start

Next == Invoke \/ Sleep

Spec == Init /\ [][Next]_vars

\* The driver is sequential code: while f and `sleep` return when called, the
\* step it is at is taken.
FairSpec == Init /\ [][Next]_vars /\ WF_vars(Invoke) /\ WF_vars(Sleep)

\* The same call with and without a subscriber for the diagnostics.
InitTraced ==
    /\ server = MixedOutcomes
    /\ client = TestClient
    /\ call = TestCall
    /\ sleep_override = Some("sleep")
    /\ peer = None
    /\ recording \in BOOLEAN
    /\ Start

SpecTraced == InitTraced /\ [][Next]_vars

(***************************************************************************)
(* The crate-root revision (lib.rs, failure.rs): the error is an enum, the *)
(* operations convert with api_client_error, and send_with_retries takes   *)
(* RetryParameters with an optional custom_sleep.                          *)
(***************************************************************************)
NotionApiClientError_RateLimit(duration) ==
    [tag |-> "RateLimit", duration |-> duration]
NotionApiClientError_Status(code) == [tag |-> "Status", code |-> code]
NotionApiClientError_Transport(message) ==
    [tag |-> "Transport", message |-> message]

RateLimitErrorFor(duration) ==
    IF duration = Unwind THEN Unwind
    ELSE NotionApiClientError_RateLimit(duration)

\* Mutant: an unavailable service is retried like a rate limit.
api_client_error_retry_503(err) ==
    IF err.type = "Transport"
    THEN NotionApiClientError_Transport("transport error")
    ELSE IF err.code \in {429, 503}
    THEN RateLimitErrorFor(
             from_secs_f64(SecondsOf(ParseF64(RetryAfterText(err)))))
    ELSE NotionApiClientError_Status(err.code)

api_client_error(err) ==
    IF err.type = "Transport"
    THEN NotionApiClientError_Transport("transport error")
    ELSE IF err.code = 429
    THEN RateLimitErrorFor(
             from_secs_f64(SecondsOf(ParseF64(RetryAfterText(err)))))
    ELSE NotionApiClientError_Status(err.code)

\* .map_err(api_client_error) on what the transport returned.
map_err(outcome) ==
    IF outcome.type = "Response" THEN Ok(outcome)
    ELSE Try(api_client_error(outcome))

NotionApiClientNew(parameters) ==
    [api_key |-> parameters.api_key,
     base_url |-> unwrap_or(parameters.base_url_override,
                            "https://api.notion.com/v1")]

\* Mutant: the override is ignored and the thread always sleeps.
Sleeper_thread(override) == "thread"
\* Who performs a wait: the caller's function, or thread::sleep.
Sleeper(override) == IF override.some THEN "custom" ELSE "thread"

RetryLib(err) ==
    /\ retries' = retries + 1
    /\ IF err.tag = "RateLimit"
       THEN /\ pc' = "sleep"
            /\ pending' = Some(err.duration)
            /\ UNCHANGED returned
            /\ Log(Sleeping)
       ELSE Return(Err(err)) /\ Log(NotRetryable)

IterationLib(result) ==
    IF result = Unwind
    THEN /\ pc' = "panicked"
         /\ UNCHANGED <<retries, pending, results, returned, diagnostics>>
    ELSE /\ results' = Append(results, result)
         /\ IF is_ok(result)
            THEN Return(result) /\ UNCHANGED <<retries, diagnostics>>
            ELSE IF Exhausted(retries)
            THEN Return(result) /\ UNCHANGED retries /\ Log(StopRetrying)
            ELSE RetryLib(unwrap_err(result))

AttemptLib(outcome) ==
    /\ pc = "loop"
    /\ sent' = Append(sent, outcome)
    /\ requests' = requests \o Transmissions(client, call)
    /\ classified' = classified \o Classifications(outcome)
    /\ UNCHANGED <<server, waits, client, call>>
    /\ UNCHANGED <<sleep_override, thread_sleeps, peer, recording>>
    /\ warnings' = RecordedAll(warnings, ClassifierWarnings(outcome))
    /\ IterationLib(map_err(outcome))
    /\ events' = events \o <<"invoke">>
                        \o (IF pc' = "done" THEN <<"return">> ELSE <<>>)

InvokeLib == \E outcome \in server : AttemptLib(outcome)

SleepLib ==
    /\ pc = "sleep"
    /\ IF Sleeper(sleep_override) = "custom"
       THEN /\ waits' = Append(waits, pending.v)
            /\ UNCHANGED thread_sleeps
       ELSE /\ thread_sleeps' = Append(thread_sleeps, pending.v)
            /\ UNCHANGED waits
    /\ pc' = "loop"
    /\ pending' = None
    /\ events' = Append(events, "wait")
    /\ UNCHANGED <<server, retries, sent, results, returned>>
    /\ UNCHANGED <<client, call, requests, classified>>
    /\ UNCHANGED <<sleep_override, peer>>
    /\ UNCHANGED <<recording, diagnostics, warnings>>

LibClients ==
    { NotionApiClientNew([api_key |-> "test_api_key", base_url_override |-> None]),
      NotionApiClientNew([api_key |-> "test_api_key",
                          base_url_override |-> Some("http://127.0.0.1:5000")]) }

InitLib ==
    /\ \/ /\ server \in {{outcome, SuccessResponse} : outcome \in FailedOutcomes}
          /\ client = NotionApiClientNew([api_key |-> "test_api_key",
                                          base_url_override |-> None])
       \/ /\ server = MixedOutcomes
          /\ client \in LibClients
    /\ call = TestCall
    /\ sleep_override \in {None, Some("custom_sleep")}
    /\ peer = None
    /\ recording = TRUE
    /\ Start

NextLib == InvokeLib \/ SleepLib

SpecLib == InitLib /\ [][NextLib]_vars

(***************************************************************************)
(* Two calls of send_with_retries (api/mod.rs) that borrow one Client.     *)
(* The second call's locals are the record `peer`; each step of either     *)
(* call is one action, so every interleaving of the two is a behaviour.    *)
(***************************************************************************)
PeerStart(f) ==
    [pc |-> "loop", retries |-> 0, pending |-> None, sent |-> <<>>,
     requests |-> <<>>, results |-> <<>>, waits |-> <<>>, returned |-> None,
     call |-> f]

\* Mutant: the second call counts on the first call's counter.
PeerRetries_shared(p) == retries
\* `retries` is a local of each activation.
PeerRetries(p) == p.retries

PeerReturn(p, value) ==
    [p EXCEPT !.pc = "done", !.returned = Some(value), !.pending = None]

PeerCount(p) == [p EXCEPT !.retries = PeerRetries(p) + 1]

PeerRetry(p, err) ==
    IF ~is_rate_limit(err) THEN PeerReturn(PeerCount(p), Err(err))
    ELSE IF retry_after(err).some
    THEN [PeerCount(p) EXCEPT !.pc = "sleep", !.pending = retry_after(err)]
    ELSE PeerCount(p)

PeerDecide(p, result) ==
    IF is_ok(result) \/ Exhausted(PeerRetries(p)) THEN PeerReturn(p, result)
    ELSE PeerRetry(p, unwrap_err(result))

PeerIteration(p, result) ==
    IF result = Unwind THEN [p EXCEPT !.pc = "panicked"]
    ELSE PeerDecide([p EXCEPT !.results = Append(@, result)], result)

PeerSent(p, outcome) ==
    [p EXCEPT !.sent = Append(@, outcome),
              !.requests = @ \o Transmissions(client, p.call)]

PeerAttempt(outcome) ==
    /\ peer.some
    /\ peer.v.pc = "loop"
    /\ peer' = Some(PeerIteration(PeerSent(peer.v, outcome),
                                  ResultOf(peer.v.call, outcome)))
    /\ UNCHANGED <<server, pc, retries, pending, sent, results, waits, returned,
                   client, call, requests, classified, events,
                   sleep_override, thread_sleeps,
                   recording, diagnostics, warnings>>

PeerInvoke == \E outcome \in server : PeerAttempt(outcome)

PeerSleep ==
    /\ peer.some
    /\ peer.v.pc = "sleep"
    /\ peer' = Some([peer.v EXCEPT !.waits = Append(@, peer.v.pending.v),
                                   !.pc = "loop", !.pending = None])
    /\ UNCHANGED <<server, pc, retries, pending, sent, results, waits, returned,
                   client, call, requests, classified, events,
                   sleep_override, thread_sleeps,
                   recording, diagnostics, warnings>>

SharedOutcomes ==
    { SuccessResponse, StatusError(400, None, ""),
      StatusError(429, Some(<<"0">>), ""),
      StatusError(429, Some(<<"1", ".", "5">>), "") }

PeerCall ==
    [op |-> "update_database_entry",
     parameters |-> [entry_id |-> "db1",
                     properties |-> [Done |-> [checkbox |-> TRUE]]]]

InitShared ==
    /\ server = SharedOutcomes
    /\ client \in {ClientNew("secret_2"), TestClient}
    /\ call = TestCall
    /\ sleep_override = Some("sleep")
    /\ peer = Some(PeerStart(PeerCall))
    /\ recording = TRUE
    /\ Start

NextShared == Invoke \/ Sleep \/ PeerInvoke \/ PeerSleep

SpecShared == InitShared /\ [][NextShared]_vars

(***************************************************************************)
(* The two revisions side by side: send_with_retries of lib.rs runs        *)
(* against the server, and send_with_retries of api/mod.rs (the locals in  *)
(* `peer`) is given the same outcomes, one by one, as far as they exist.   *)
(***************************************************************************)
PeerReplay ==
    /\ peer.some
    /\ Len(peer.v.sent) < Len(sent)
    /\ PeerAttempt(sent[Len(peer.v.sent) + 1])

\* Only a 429 response has its Retry-After header read.
RevisionOutcomes ==
    {TransportError}
    \cup {StatusError(c, None, b) : c \in FailureCodes \ {429}, b \in Bodies}
    \cup {StatusError(429, h, "") : h \in RetryAfterHeaders}

InitBoth ==
    /\ server \in {MixedOutcomes}
                  \cup {{outcome, SuccessResponse} : outcome \in RevisionOutcomes}
    /\ client = TestClient
    /\ call = TestCall
    /\ sleep_override = Some("custom_sleep")
    /\ peer = Some(PeerStart(TestCall))
    /\ recording = TRUE
    /\ Start

NextBoth == InvokeLib \/ SleepLib \/ PeerReplay \/ PeerSleep

SpecBoth == InitBoth /\ [][NextBoth]_vars

(***************************************************************************)
(* Properties of the retry driver.                                         *)
(***************************************************************************)
IsFailure(result) == ~result.ok
IsRateLimited(result) == ~result.ok /\ result.err.kind.tag = "RateLimit"
Last(seq) == seq[Len(seq)]

\* C1: an invocation that fails with an error other than RateLimit is the
\* last one: the driver has returned exactly that error, nothing was handed
\* to `sleep` after it (every wait belongs to an earlier invocation), and no
\* other request follows.  A first-attempt BadRequest therefore ends the
\* call with zero waits.
C1_NonRateLimitReturnsAtOnce ==
    \A i \in 1..Len(results) :
        (IsFailure(results[i]) /\ ~IsRateLimited(results[i]))
        => /\ i = Len(results)
           /\ Len(sent) = i
           /\ pc = "done"
           /\ returned = Some(results[i])
           /\ Len(waits) = i - 1
           /\ pending = None

C1_Witness ==
    /\ pc = "done"
    /\ Len(results) = 2
    /\ IsRateLimited(results[1])
    /\ IsFailure(results[2]) /\ results[2].err.kind = BadRequest
    /\ returned = Some(results[2])
    /\ Len(waits) = 1

\* C2: one call never invokes the wrapped operation more than 4 times, never
\* calls the wait primitive more than 3 times, and its retry counter never
\* exceeds 3.
C2_BoundedAttempts ==
    /\ Len(sent) <= 4
    /\ Len(results) <= 4
    /\ Len(waits) <= 3
    /\ retries \in 0..3

C2_Witness ==
    /\ Len(sent) = 4
    /\ Len(waits) = 3
    /\ retries = 3
    /\ pc = "done"

\* C3: when every invocation failed with RateLimit and the driver has
\* returned, there were exactly 4 invocations and exactly 3 waits, the value
\* returned is the error of the 4th invocation, and no wait is left pending.
C3_AlwaysRateLimited ==
    (pc = "done" /\ \A i \in 1..Len(results) : IsRateLimited(results[i]))
    => /\ Len(results) = 4
       /\ Len(sent) = 4
       /\ Len(waits) = 3
       /\ returned = Some(results[4])
       /\ pending = None

C3_Witness ==
    /\ pc = "done"
    /\ Len(results) = 4
    /\ \A i \in 1..4 : IsRateLimited(results[i])
    /\ Len(waits) = 3
    /\ IsRateLimited(returned.v)

\* C4: when k RateLimit failures are followed by a success, the driver has
\* returned that success after exactly k waits and k + 1 invocations, with
\* k at most 3; and as long as fewer than 4 invocations have all failed with
\* RateLimit the driver has not returned, so the success is waited for.
C4_SuccessAfterRateLimits ==
    /\ (Len(results) > 0 /\ Last(results).ok)
       => /\ \A i \in 1..(Len(results) - 1) : IsRateLimited(results[i])
          /\ pc = "done"
          /\ returned = Some(Last(results))
          /\ Len(waits) = Len(results) - 1
          /\ Len(sent) = Len(results)
          /\ Len(results) - 1 \in 0..3
    /\ (Len(results) < 4 /\ \A i \in 1..Len(results) : IsRateLimited(results[i]))
       => /\ pc \in {"loop", "sleep", "panicked"}
          /\ returned = None

C4_Witness ==
    /\ pc = "done"
    /\ Len(results) = 4
    /\ \A i \in 1..3 : IsRateLimited(results[i])
    /\ results[4].ok
    /\ returned = Some(results[4])
    /\ Len(waits) = 3

\* C5: what the driver returns is the value of the last invocation, success
\* or failure, with its kind and duration; and every invocation that was
\* followed by another one failed with RateLimit.
C5_ReturnsLastResult ==
    /\ pc = "done"
       => /\ Len(results) > 0
          /\ Len(sent) = Len(results)
          /\ returned = Some(Last(results))
    /\ pc # "done" => returned = None
    /\ \A i \in 1..(Len(sent) - 1) : IsRateLimited(results[i])

C5_Witness ==
    /\ pc = "done"
    /\ Len(results) = 4
    /\ IsFailure(results[4])
    /\ results[4].err.kind = Communication
    /\ returned = Some(results[4])

\* C6: the i-th call of the wait primitive is passed the duration carried by
\* the RateLimit error of the i-th invocation, and a wait that is about to
\* start carries the duration of the invocation that just failed.
C6_WaitsUseServerDuration ==
    /\ \A i \in 1..Len(waits) :
          /\ IsRateLimited(results[i])
          /\ waits[i] = results[i].err.kind.duration
    /\ pc = "sleep"
       => /\ IsRateLimited(Last(results))
          /\ pending = Some(Last(results).err.kind.duration)
          /\ Len(waits) = Len(results) - 1

C6_Witness ==
    /\ Len(waits) = 3
    /\ waits[1] = Duration(1, 500000000)
    /\ waits[2] = Duration(0, 0)
    /\ waits[3] = Duration(1, 0)

(***************************************************************************)
(* Properties of the error classifier.  sent[i] is the transport outcome   *)
(* of the i-th request and results[i] what the operation made of it.       *)
(***************************************************************************)
IsStatus(outcome, code) == outcome.type = "Status" /\ outcome.code = code

\* C7: every failed transport outcome is classified, and into the kind the
\* table gives: no response -> Communication, 400 -> BadRequest,
\* 401 -> Authorization, 429 -> RateLimit, any other status -> Unexpected,
\* whatever the body and the headers of the response.
C7_EveryFailureClassified ==
    \A i \in 1..Len(sent) :
        sent[i].type # "Response"
        => /\ i <= Len(results)
           /\ IsFailure(results[i])
           /\ results[i].err.kind.tag =
                 IF sent[i].type = "Transport" THEN "Communication"
                 ELSE IF sent[i].code = 400 THEN "BadRequest"
                 ELSE IF sent[i].code = 401 THEN "Authorization"
                 ELSE IF sent[i].code = 429 THEN "RateLimit"
                 ELSE "Unexpected"

\* C8: a 429 response whose Retry-After header is missing, or present but
\* not a floating-point number, is classified as RateLimit with a duration
\* of exactly one second.
C8_DefaultsToOneSecond ==
    \A i \in 1..Len(sent) :
        (/\ IsStatus(sent[i], 429)
         /\ \/ ~sent[i].retry_after.some
            \/ ~ParseF64(sent[i].retry_after.v).ok)
        => /\ i <= Len(results)
           /\ IsFailure(results[i])
           /\ results[i].err.kind = RateLimit(Duration(1, 0))

C8_Witness ==
    \E i, j \in 1..Len(results) :
        /\ IsStatus(sent[i], 429) /\ sent[i].retry_after = None
        /\ IsStatus(sent[j], 429) /\ sent[j].retry_after = Some(<<"x">>)
        /\ results[i].err.kind = RateLimit(Duration(1, 0))
        /\ results[j].err.kind = RateLimit(Duration(1, 0))

\* C9: classification never fails: no request ends in a panic, every failed
\* outcome yields an Error, and the duration of a RateLimit is never
\* negative.
C9_ClassificationNeverFails ==
    /\ pc # "panicked"
    /\ Len(results) = Len(sent)
    /\ \A i \in 1..Len(results) :
          IsRateLimited(results[i])
          => /\ results[i].err.kind.duration.secs >= 0
             /\ results[i].err.kind.duration.nanos >= 0

\* The text is a plain non-negative decimal: digits with at most one point.
IsPlainDecimal(t) ==
    /\ \A k \in 1..Len(t) : t[k] \in Digits \cup {"."}
    /\ Cardinality({k \in 1..Len(t) : t[k] = "."}) <= 1
    /\ \E k \in 1..Len(t) : t[k] \in Digits

PointAt(t) ==
    IF \E k \in 1..Len(t) : t[k] = "."
    THEN CHOOSE k \in 1..Len(t) : t[k] = "."
    ELSE Len(t) + 1

WholePart(t) == StripLeadingZeros(Take(t, PointAt(t) - 1))
FractionPart(t) == Drop(t, PointAt(t))

\* The duration is the number the plain decimal t writes, digit for digit.
ExactlySeconds(duration, t) ==
    /\ duration.secs = DigitsToNat(WholePart(t))
    /\ duration.nanos = DigitsToNat(Take(FractionPart(t) \o Zeros(9), 9))
    /\ AllZero(Drop(FractionPart(t), 9))

\* What C10 says of the i-th request, whose Retry-After value is t.
RetryAfterHonoured(i, t) ==
    /\ i <= Len(results)
    /\ IsRateLimited(results[i])
    /\ ExactlySeconds(results[i].err.kind.duration, t)
    /\ i <= Len(waits) => waits[i] = results[i].err.kind.duration

\* C10, as stated: every 429 response whose Retry-After is a non-negative
\* decimal number of seconds is classified as RateLimit with exactly that
\* many seconds, and the driver passes that duration on to the wait.
C10_ExactForEveryDecimal ==
    \A i \in 1..Len(sent) :
        (/\ IsStatus(sent[i], 429)
         /\ sent[i].retry_after.some
         /\ IsPlainDecimal(sent[i].retry_after.v))
        => RetryAfterHonoured(i, sent[i].retry_after.v)

\* C10, amended: the same for a decimal with at most nine fraction digits
\* and fewer than seven whole-second digits (under 1,000,000 seconds).
C10_ExactToTheNanosecond ==
    \A i \in 1..Len(sent) :
        (/\ IsStatus(sent[i], 429)
         /\ sent[i].retry_after.some
         /\ IsPlainDecimal(sent[i].retry_after.v)
         /\ Len(FractionPart(sent[i].retry_after.v)) <= 9
         /\ Len(WholePart(sent[i].retry_after.v)) <= 6)
        => RetryAfterHonoured(i, sent[i].retry_after.v)

C10_Witness ==
    /\ Len(waits) >= 1
    /\ sent[1] = StatusError(429, Some(<<"1", ".", "0", "0", "0", "0", "0", "0", "0", "0", "1">>), "")
    /\ results[1].err.kind = RateLimit(Duration(1, 1))
    /\ waits[1] = Duration(1, 1)

(***************************************************************************)
(* The client operations under the driver.                                 *)
(***************************************************************************)
IsResponse(outcome) == outcome.type = "Response"
Is2xx(outcome) == IsResponse(outcome) /\ outcome.code \in 200..299
NotResponse(outcome) == ~IsResponse(outcome)
IsInvoke(event) == event = "invoke"
Invocations == Len(SelectSeq(events, IsInvoke))

\* C11: a 2xx outcome is never handed to the error classifier and the
\* operation returns that very response as its success value; the
\* classifier has been invoked on the failed outcomes, and only on them.
C11_ClassifierOnlyOnFailure ==
    /\ classified = SelectSeq(sent, NotResponse)
    /\ \A i \in 1..Len(classified) : ~Is2xx(classified[i])
    /\ \A i \in 1..Len(results) :
          Is2xx(sent[i]) => results[i] = Ok(sent[i])

C11_Witness ==
    /\ pc = "done"
    /\ call.op = "create_database_entry"
    /\ Len(sent) = 2
    /\ IsStatus(sent[1], 429)
    /\ sent[2] = Response(201, None, "{\"object\":\"page\"}")
    /\ classified = <<sent[1]>>
    /\ returned = Some(Ok(sent[2]))

\* C12: one invocation of an operation hands exactly one request to the
\* transport, so under the driver the requests sent are as many as the
\* invocations, at most 4.
C12_OneRequestPerInvocation ==
    /\ Len(requests) = Invocations
    /\ Len(requests) = Len(sent)
    /\ Len(requests) <= 4

C12_Witness ==
    /\ pc = "done"
    /\ call.op = "update_database_entry"
    /\ Invocations = 4
    /\ Len(requests) = 4
    /\ Len(waits) = 3

DefaultBaseUrl == "https://api.notion.com/v1"

\* The method, URL and body the operation f of client c is to send.
ShapeOf(c, f, request) ==
    CASE f.op = "create_database_entry" ->
            /\ request.method = "POST"
            /\ request.path = c.base_url \o "/pages"
            /\ request.body =
                  Some([parent |-> [database_id |-> f.parameters.database_id],
                        properties |-> f.parameters.properties])
      [] f.op = "update_database_entry" ->
            /\ request.method = "PATCH"
            /\ request.path = c.base_url \o "/pages/" \o f.parameters.entry_id
            /\ request.body = Some([properties |-> f.parameters.properties])
      [] f.op = "query_database_properties" ->
            /\ request.method = "GET"
            /\ request.path = c.base_url \o "/databases/" \o f.database_id
            /\ request.body = None
      [] f.op = "query_database" ->
            /\ request.method = "POST"
            /\ request.path = c.base_url \o "/databases/"
                                 \o f.parameters.database_id \o "/query"
            /\ request.body.some

\* C13: every request has the method, URL and body of its operation, built
\* from the client's base URL (the Notion API's when none was configured) and
\* the call's inputs alone: every attempt of a call sends the same request.
C13_RequestShapes ==
    /\ \A i \in 1..Len(requests) : ShapeOf(client, call, requests[i])
    /\ \A i, j \in 1..Len(requests) : requests[i] = requests[j]
    /\ client \in {ClientNew("test_api_key"), ClientNew("secret_2")}
          => client.base_url = DefaultBaseUrl

C13_Witness ==
    /\ client = ClientNew("secret_2")
    /\ call.op = "update_database_entry"
    /\ call.parameters.entry_id = "db1"
    /\ Len(requests) = 2
    /\ requests[2].method = "PATCH"
    /\ requests[2].path = "https://api.notion.com/v1/pages/db1"

\* The keys a query's body is to have.
QueryKeys(parameters) ==
    {"page_size"}
    \cup (IF parameters.start_cursor.some THEN {"start_cursor"} ELSE {})
    \cup (IF parameters.filter.some THEN {"filter"} ELSE {})

\* C14: the body of a query holds page_size (the supplied one, else 100),
\* start_cursor exactly when a cursor was supplied, filter exactly when a
\* filter was supplied, and no other key; with no optional parameter it is
\* {"page_size": 100}.
C14_QueryBody ==
    call.op = "query_database" =>
        \A i \in 1..Len(requests) :
            /\ requests[i].body.some
            /\ DOMAIN requests[i].body.v = QueryKeys(call.parameters)
            /\ requests[i].body.v["page_size"] =
                  (IF call.parameters.page_size.some
                   THEN call.parameters.page_size.v ELSE 100)
            /\ call.parameters.start_cursor.some
                  => requests[i].body.v["start_cursor"]
                        = call.parameters.start_cursor.v
            /\ call.parameters.filter.some
                  => requests[i].body.v["filter"] = call.parameters.filter.v
            /\ (/\ ~call.parameters.page_size.some
                /\ ~call.parameters.start_cursor.some
                /\ ~call.parameters.filter.some)
                  => requests[i].body.v = [page_size |-> 100]

C14_Witness ==
    /\ call.op = "query_database"
    /\ call.parameters.page_size = None
    /\ call.parameters.start_cursor = None
    /\ call.parameters.filter = None
    /\ Len(requests) = 1
    /\ requests[1].body = Some([page_size |-> 100])

\* C15: every request, the first attempt's and every retry's, carries
\* Authorization: Bearer <api_key>, Content-Type: application/json and
\* Notion-Version: 2022-06-28.
C15_HeadersOnEveryRequest ==
    \A i \in 1..Len(requests) :
        /\ {"Authorization", "Content-Type", "Notion-Version"}
              \subseteq DOMAIN requests[i].headers
        /\ requests[i].headers["Authorization"] = "Bearer " \o client.api_key
        /\ requests[i].headers["Content-Type"] = "application/json"
        /\ requests[i].headers["Notion-Version"] = "2022-06-28"

C15_Witness ==
    /\ client.api_key = "secret_2"
    /\ Len(requests) = 3
    /\ Len(waits) = 2
    /\ requests[3].headers["Authorization"] = "Bearer secret_2"
    /\ requests[3].headers = requests[1].headers

(***************************************************************************)
(* Error values and the order of the driver's events.                      *)
(***************************************************************************)
KindPredicates(err) ==
    <<is_authorization(err), is_bad_request(err), is_communication(err),
      is_rate_limit(err), is_unexptected_status(err)>>

TrueCount(flags) == Cardinality({k \in DOMAIN flags : flags[k]})

IsWait(event) == event = "wait"

\* The number of invocations among the first k events.
InvocationsUpTo(k) == Len(SelectSeq(SubSeq(events, 1, k), IsInvoke))

\* C16: for every Error value exactly one of the five kind predicates is
\* true; retry_after gives a duration exactly when is_rate_limit is true, and
\* that duration is not negative; every invocation after the first comes
\* directly after one wait, which comes directly after the previous
\* invocation.
C16_OneKindAndOneWaitPerRetry ==
    /\ \A i \in 1..Len(results) :
          IsFailure(results[i]) =>
             /\ TrueCount(KindPredicates(results[i].err)) = 1
             /\ retry_after(results[i].err).some <=> is_rate_limit(results[i].err)
             /\ is_rate_limit(results[i].err) =>
                   /\ retry_after(results[i].err).v.secs >= 0
                   /\ retry_after(results[i].err).v.nanos \in 0..(NANOS_PER_SEC - 1)
    /\ \A k \in 2..Len(events) :
          IsInvoke(events[k]) =>
             /\ IsWait(events[k - 1])
             /\ k > 2
             /\ IsInvoke(events[k - 2])
    /\ Len(waits) = Len(SelectSeq(events, IsWait))
    /\ pc = "done" => Len(waits) = Invocations - 1

C16_Witness ==
    /\ pc = "done"
    /\ Len(results) = 3
    /\ is_rate_limit(results[1].err)
    /\ retry_after(results[1].err) = Some(Duration(1, 500000000))
    /\ is_rate_limit(results[2].err)
    /\ IsFailure(results[3])
    /\ is_unexptected_status(results[3].err)
    /\ retry_after(results[3].err) = None
    /\ events = <<"invoke", "wait", "invoke", "wait", "invoke", "return">>

IsOtherStatus(outcome) ==
    /\ outcome.type = "Status"
    /\ outcome.code \notin 200..299
    /\ outcome.code \notin {400, 401, 429}

\* C17: a failure status other than 400, 401 and 429 is classified as an
\* Unexpected error whose source holds that status code, and when the driver
\* returns that error the caller gets the same kind and status code.
C17_UnexpectedKeepsStatus ==
    /\ \A i \in 1..Len(results) :
          IsOtherStatus(sent[i]) =>
             /\ IsFailure(results[i])
             /\ is_unexptected_status(results[i].err)
             /\ results[i].err.kind = Unexpected
             /\ results[i].err.source.type = "Status"
             /\ results[i].err.source.code = sent[i].code
    /\ (pc = "done" /\ IsOtherStatus(Last(sent))) =>
          /\ ~returned.v.ok
          /\ is_unexptected_status(returned.v.err)
          /\ returned.v.err.source.code = Last(sent).code

C17_Witness ==
    /\ pc = "done"
    /\ Len(sent) = 2
    /\ IsStatus(sent[1], 429)
    /\ IsStatus(sent[2], 404)
    /\ returned = Some(Err(Error(Unexpected, sent[2])))
    /\ returned.v.err.source.code = 404

\* C20: the events of a call form a prefix of invoke (wait invoke)* return.
\* The first is an invocation; every wait comes directly after an invocation
\* that failed with RateLimit and is followed by an invocation (by nothing
\* yet only while the driver is about to invoke); an invocation other than
\* the first comes directly after a wait; the return is the last event and
\* comes directly after an invocation.
C20_EventShape ==
    /\ events # <<>> => IsInvoke(events[1])
    /\ \A k \in 1..Len(events) :
          /\ IsWait(events[k]) =>
                /\ k > 1
                /\ IsInvoke(events[k - 1])
                /\ IsRateLimited(results[InvocationsUpTo(k)])
                /\ IF k < Len(events) THEN IsInvoke(events[k + 1])
                   ELSE pc = "loop"
          /\ (IsInvoke(events[k]) /\ k > 1) => IsWait(events[k - 1])
          /\ events[k] = "return" =>
                /\ k = Len(events)
                /\ k > 1
                /\ IsInvoke(events[k - 1])
    /\ pc = "done" <=> (events # <<>> /\ Last(events) = "return")

C20_Witness ==
    /\ events = <<"invoke", "wait", "invoke", "wait", "invoke", "wait",
                  "invoke", "return">>
    /\ returned.v.ok

(***************************************************************************)
(* The wait primitive (crate-root revision).                               *)
(***************************************************************************)
IsRateLimitedLib(result) == ~result.ok /\ result.err.tag = "RateLimit"

\* The waits a call has made once it has the results so far: one per
\* rate-limited result, the last of them still to come while pc = "sleep".
\* (A call that unwound had waited after each of its results.)
WaitsDue ==
    [i \in 1..(IF pc \in {"loop", "panicked"} THEN Len(results)
               ELSE Len(results) - 1) |->
        results[i].err.duration]

\* C19: with a custom wait function every wait is a call of that function
\* and the thread never sleeps; with none every wait is a thread sleep of the
\* requested duration.  Either way the results are those of the outcomes
\* received, the waits are those the rate-limited results ask for, there are
\* at most 4 invocations and the call returns its last result.
C19_WaitPrimitiveSubstitutable ==
    /\ sleep_override.some => (thread_sleeps = <<>> /\ waits = WaitsDue)
    /\ ~sleep_override.some => (waits = <<>> /\ thread_sleeps = WaitsDue)
    /\ Len(results) > 0 =>
          \A i \in 1..(Len(results) - 1) : IsRateLimitedLib(results[i])
    /\ \A i \in 1..Len(results) : results[i] = map_err(sent[i])
    /\ Len(sent) <= 4
    /\ pc = "done" => returned = Some(Last(results))
    /\ pc = "sleep" => IsRateLimitedLib(Last(results))

C19_Witness ==
    /\ ~sleep_override.some
    /\ pc = "done"
    /\ thread_sleeps = <<Duration(1, 500000000), Duration(0, 0)>>
    /\ waits = <<>>
    /\ Len(sent) = 3
    /\ returned = Some(Ok(SuccessResponse))

(***************************************************************************)
(* Calls sharing a client.                                                 *)
(***************************************************************************)
Min(a, b) == IF a < b THEN a ELSE b

\* What the locals of one call must be, given only the outcomes that call
\* received: its results, its counter, its waits and what it returned.
OwnResults(f, outcomes, rs) ==
    /\ Len(rs) = Len(outcomes)
    /\ \A i \in 1..Len(rs) : rs[i] = ResultOf(f, outcomes[i])

OwnCounter(rs, counter) ==
    counter = Min(3, Len(SelectSeq(rs, IsFailure)))

OwnWaits(rs, position, ws) ==
    /\ Len(ws) = (IF position = "loop" THEN Len(rs) ELSE Len(rs) - 1)
    /\ \A i \in 1..Len(ws) : IsRateLimited(rs[i]) /\ ws[i] = rs[i].err.kind.duration

OwnReturn(rs, position, value) ==
    IF position = "done" THEN value = Some(Last(rs)) ELSE value = None

CallsIndependent ==
    /\ Len(sent) <= 4
    /\ OwnResults(call, sent, results)
    /\ OwnCounter(results, retries)
    /\ OwnWaits(results, pc, waits)
    /\ OwnReturn(results, pc, returned)
    /\ Len(peer.v.sent) <= 4
    /\ OwnResults(peer.v.call, peer.v.sent, peer.v.results)
    /\ OwnCounter(peer.v.results, peer.v.retries)
    /\ OwnWaits(peer.v.results, peer.v.pc, peer.v.waits)
    /\ OwnReturn(peer.v.results, peer.v.pc, peer.v.returned)
    /\ \A i \in 1..Len(requests) : requests[i] = RequestOf(client, call)
    /\ \A i \in 1..Len(peer.v.requests) :
          peer.v.requests[i] = RequestOf(client, peer.v.call)

\* C18: under every interleaving of two calls that share a client, the
\* client's API key and base URL never change, and each call's counter,
\* attempts (at most 4), waits and returned result are those its own
\* outcomes give, whatever the other call received.
C18_SharedClientCallsIndependent ==
    /\ []CallsIndependent
    /\ [][client' = client]_vars

C18_Witness ==
    /\ pc = "done"
    /\ Len(sent) = 4
    /\ retries = 3
    /\ waits = <<Duration(0, 0), Duration(0, 0), Duration(0, 0)>>
    /\ IsRateLimited(Last(results))
    /\ peer.v.pc = "done"
    /\ Len(peer.v.sent) = 2
    /\ peer.v.retries = 1
    /\ peer.v.waits = <<Duration(1, 500000000)>>
    /\ peer.v.returned = Some(Ok(SuccessResponse))

(***************************************************************************)
(* Termination.                                                            *)
(***************************************************************************)
\* C21: when no invocation of the wrapped operation unwinds (each one
\* returns) and every wait returns, the driver eventually returns a result,
\* whatever outcomes the operation keeps producing.
C21_Terminates == [](pc # "panicked") => <>(pc = "done" /\ returned.some)

C21_Witness ==
    /\ pc = "done"
    /\ Len(sent) = 4
    /\ Len(waits) = 3
    /\ \A i \in 1..4 : IsRateLimited(results[i])
    /\ returned = Some(Last(results))

(***************************************************************************)
(* Diagnostics.                                                            *)
(***************************************************************************)
IsStopRetrying(event) == event = StopRetrying
IsNotRetryable(event) == event = NotRetryable
IsSleeping(event) == event = Sleeping

ReturnedFailure == pc = "done" /\ IsFailure(returned.v)

OneIf(condition) == IF condition THEN 1 ELSE 0

\* What the driver's locals must be given the outcomes alone, diagnostics
\* recorded or not.
FlowFromOutcomes ==
    /\ \A i \in 1..Len(results) : results[i] = ResultOf(call, sent[i])
    /\ OwnCounter(results, retries)
    /\ pc # "panicked" =>
          /\ Len(results) = Len(sent)
          /\ OwnWaits(results, pc, waits)
          /\ OwnReturn(results, pc, returned)

\* C22: with a subscriber, the exhaustion diagnostic has been emitted (once)
\* exactly when the driver has returned a failure from the 4th invocation,
\* the non-retryable one exactly when it has returned a failure other than
\* RateLimit from an earlier invocation, neither when it returned success,
\* and one sleeping diagnostic precedes each wait; a terminal diagnostic is
\* the last one.  With or without a subscriber the results, counter, waits
\* and returned value are those the outcomes give.
C22_DiagnosticsMatchOutcome ==
    /\ ~recording => (diagnostics = <<>> /\ warnings = <<>>)
    /\ recording =>
          /\ Len(SelectSeq(diagnostics, IsStopRetrying))
                = OneIf(ReturnedFailure /\ Len(sent) = 4)
          /\ Len(SelectSeq(diagnostics, IsNotRetryable))
                = OneIf(/\ ReturnedFailure
                        /\ ~IsRateLimited(returned.v)
                        /\ Len(sent) < 4)
          /\ Len(SelectSeq(diagnostics, IsSleeping))
                = Len(waits) + OneIf(pc = "sleep")
          /\ \A k \in 1..(Len(diagnostics) - 1) : IsSleeping(diagnostics[k])
          /\ (pc = "done" /\ returned.v.ok) =>
                \A k \in 1..Len(diagnostics) : IsSleeping(diagnostics[k])
    /\ FlowFromOutcomes

C22_Witness ==
    /\ recording
    /\ pc = "done"
    /\ Len(sent) = 4
    /\ returned = Some(Err(Error(BadRequest, sent[4])))
    /\ diagnostics = <<Sleeping, Sleeping, Sleeping, StopRetrying>>
    /\ MissingRetryAfter \in {warnings[k] : k \in 1..Len(warnings)}

(***************************************************************************)
(* The two revisions.                                                      *)
(***************************************************************************)
\* An error of lib.rs and the error of api/ that stands for the same thing.
ErrorsCorrespond(lib, api) ==
    /\ lib.tag = "RateLimit" <=> api.kind.tag = "RateLimit"
    /\ lib.tag = "RateLimit" => api.kind.duration = lib.duration
    /\ lib.tag = "Transport" <=> api.kind = Communication
    /\ lib.tag = "Status" <=> api.kind \in {BadRequest, Authorization, Unexpected}
    /\ lib.tag = "Status" => api.source.code = lib.code

ResultsCorrespond(lib, api) ==
    /\ lib.ok <=> api.ok
    /\ IF lib.ok THEN api.ok /\ lib.response = api.response
       ELSE ~api.ok /\ ErrorsCorrespond(lib.err, api.err)

IsOver(position) == position \in {"done", "panicked"}

\* C23: given the outcomes the lib.rs driver received, the api/mod.rs driver
\* gets corresponding results, makes the same waits (each may be one wait
\* ahead of the other while both run), stops exactly where the other stops
\* (after the same number of invocations) and returns a corresponding value.
C23_RevisionsEquivalent ==
    /\ Len(peer.v.sent) <= Len(sent)
    /\ \A i \in 1..Len(peer.v.results) :
          /\ i <= Len(results)
          /\ ResultsCorrespond(results[i], peer.v.results[i])
    /\ \A i \in 1..Min(Len(waits), Len(peer.v.waits)) :
          waits[i] = peer.v.waits[i]
    /\ Len(peer.v.waits) <= Len(waits) + 1
    /\ IsOver(peer.v.pc) =>
          /\ pc = peer.v.pc
          /\ Len(sent) = Len(peer.v.sent)
          /\ waits = peer.v.waits
          /\ pc = "done" => ResultsCorrespond(returned.v, peer.v.returned.v)
    /\ (Len(peer.v.sent) = Len(sent) /\ Len(peer.v.waits) = Len(waits)) =>
          pc = peer.v.pc

C23_Witness ==
    /\ pc = "done"
    /\ peer.v.pc = "done"
    /\ Len(sent) = 3
    /\ Len(peer.v.sent) = 3
    /\ waits = <<Duration(1, 500000000), Duration(0, 0)>>
    /\ peer.v.waits = waits
    /\ returned = Some(Err(NotionApiClientError_Status(404)))
    /\ peer.v.returned = Some(Err(Error(Unexpected, sent[3])))

=============================================================================
